---- MODULE Spec2Model ----
(***************************************************************************)
(* Westy FileMaster PRO: the selection bookkeeping (SelectionManager.py,   *)
(* the pane lists of FileList.py), the LRU/TTL caches (CacheManager.py)    *)
(* the batch file operations (BatchOperations.py, Directories.py) and the  *)
(* threaded transfers (FileTransfer.py), each as a state machine           *)
(* translated from the Python source.                                      *)
(*                                                                         *)
(* Four specifications share the variables; each moves one subsystem and   *)
(* leaves the others at rest:                                              *)
(*   SelSpec    SelectionManager and the two WestyFileList panes           *)
(*   CacheSpec  FileInfoCache and ImageCache                               *)
(*   BatchSpec  BatchOperations / SmartDirectoryManager over a file system *)
(*   TransSpec  WestyFileTransferJob, its tasks and their transfer threads *)
(***************************************************************************)
EXTENDS Integers, Sequences, FiniteSets, TLC

VARIABLES
    \* ---- SelectionManager (SelectionManager.py) and the panes (FileList.py)
    selected_items,   \* dict (pane_id, path) -> file_info
    total_size,       \* running total of the selected sizes
    current_pane,     \* SelectionManager.current_pane
    current_directory,\* pane -> WestyFileList.current_directory
    sel_ret,          \* what the last SelectionManager / pane call returned
    sel_op,           \* the name of that call
    keys_held,        \* SelectionManager.keys_held: key -> state
    sel_last,         \* for a clear_selection call: its argument and the keys it took out
    \* ---- FileInfoCache / ImageCache (CacheManager.py)
    \* (the counters hits and misses only feed get_stats and are left out)
    cache,            \* FileInfoCache.cache: OrderedDict, oldest first
    max_size,         \* FileInfoCache.max_size
    now,              \* time.time()
    icache,           \* ImageCache.cache: OrderedDict, oldest first
    cache_op,         \* the last cache call: what it was given, found and did
    lru,              \* the cached paths in the order of their last access by get
    \* ---- BatchOperations / SmartDirectoryManager (BatchOperations.py, Directories.py)
    fs,               \* the filesystem: path -> node
    cancel_requested, \* BatchOperations.cancel_requested
    call,             \* the call in progress: class, method, arguments
    pc,               \* where the call stands
    index,            \* the index of the item the loop is at
    results,          \* the results dictionary being built
    cp,               \* the locals of the running copy / secure delete
    returned,         \* what the finished call gave its caller
    watch,            \* observations of the running call, for the properties
    \* ---- WestyFileTransferJob / WestyFileTransferTask (FileTransfer.py)
    tfs,              \* the filesystem the transfers work on: path -> node
    job,              \* the job: queue fields and the tasks it has created
    ui_busy,          \* the task whose cancel() the UI thread is inside, or 0
    t_last            \* the completion the last step reported to the job, if it did

selVars ==
    <<selected_items, total_size, current_pane, current_directory, sel_ret, sel_op,
      keys_held, sel_last>>

\* Python's None where a pane id (a string) or a path (a sequence) is expected
None == "None"
NoPath == <<"None">>

\* What a call returned: None, a bool or a count.
RetNone == [tag |-> "none", n |-> 0]
RetBool(b) == [tag |-> "bool", n |-> IF b THEN 1 ELSE 0]
RetCount(c) == [tag |-> "count", n |-> c]

cacheVars == <<cache, max_size, now, icache, cache_op, lru>>

\* what a call on one object leaves alone: the other objects
batchVars == <<fs, cancel_requested, call, pc, index, results, cp, returned, watch>>
transVars == <<tfs, job, ui_busy, t_last>>
nonSel == <<cacheVars, batchVars, transVars>>
nonCache == <<selVars, batchVars, transVars>>
nonBatch == <<selVars, cacheVars, transVars>>
nonTrans == <<selVars, cacheVars, batchVars>>

(***************************************************************************)
(*                     SelectionManager and the panes                      *)
(***************************************************************************)

\* The model's bound: how many entries may be selected at once.
MaxSelected == 2

Panes == {"left", "right"}

\* Directories are sequences of names; the tree is the root and one child.
RootDir == <<>>
Dirs == {RootDir, <<"d">>}
\* what a pane lists under dir: the root holds file f and directory d, d holds f
Entries(dir) == IF dir = RootDir THEN {"f", "d"} ELSE {"f"}
\* os.path.join(current_dir, filename)
Join(dir, name) == Append(dir, name)
SelPaths == UNION {{Join(d, n) : n \in Entries(d)} : d \in Dirs}
\* the directory entries a pane lists under dir (what descent can enter)
SubDirs(dir) == {d \in Dirs : Len(d) = Len(dir) + 1 /\ SubSeq(d, 1, Len(dir)) = dir}

\* A file_info is a dict that may or may not carry 'size'.
EmptyInfo == [k \in {} |-> 0]
SizeChoices == {1, 2}
\* (a file_info without 'size' comes in through select_all_in_pane, see ListItems)
Infos == {[size |-> n] : n \in SizeChoices}

\* file_info.get('size', 0)
SizeOf(info) == IF "size" \in DOMAIN info THEN info["size"] ELSE 0

\* dict helpers
DictPut(d, k, v) == [x \in DOMAIN d \cup {k} |-> IF x = k THEN v ELSE d[x]]
DictPop(d, k) == [x \in DOMAIN d \ {k} |-> d[x]]

\* The SelectionManager's data as one value, so that calls compose.
SelState(items, total, ret) == [items |-> items, total |-> total, ret |-> ret]

\* pane_id=None means the current pane (lines 59-60, 71-72, 83-84, 93-94)
PaneOrCurrent(pane_id) == IF pane_id = None THEN current_pane ELSE pane_id

\* the total after an entry's size has been added / removed (lines 65, 77, 134)
AddSize(total, info) == total + SizeOf(info)
SubSizeForgotten(total, info) == total
SubSize(total, info) == total - SizeOf(info)

\* SelectionManager.is_selected
is_selected(items, path, pane) == <<pane, path>> \in DOMAIN items

\* SelectionManager.select_item
select_item_always(s, path, info, pane) ==
    SelState(DictPut(s.items, <<pane, path>>, info), AddSize(s.total, info), RetBool(TRUE))
select_item(s, path, info, pane) ==
    LET key == <<pane, path>> IN
    IF key \notin DOMAIN s.items
    THEN SelState(DictPut(s.items, key, info), AddSize(s.total, info), RetBool(TRUE))
    ELSE SelState(s.items, s.total, RetBool(FALSE))

\* SelectionManager.deselect_item
deselect_item(s, path, pane) ==
    LET key == <<pane, path>> IN
    IF key \in DOMAIN s.items
    THEN SelState(DictPop(s.items, key), SubSize(s.total, s.items[key]), RetBool(TRUE))
    ELSE SelState(s.items, s.total, RetBool(FALSE))

\* SelectionManager.toggle_selection
toggle_selection(s, path, info, pane) ==
    IF is_selected(s.items, path, pane)
    THEN deselect_item(s, path, pane)
    ELSE select_item(s, path, info, pane)

\* SelectionManager.clear_selection: the keys of one pane are popped one by one,
\* each subtracting its size; a falsy pane_id clears everything.
RECURSIVE PopAll(_, _, _)
PopAll(items, total, keys) ==
    IF keys = {} THEN SelState(items, total, RetNone)
    ELSE LET key == CHOOSE k \in keys : TRUE IN
         PopAll(DictPop(items, key), SubSize(total, items[key]), keys \ {key})

clear_selection_all(s, pane_id) == SelState(EmptyInfo, 0, RetNone)
clear_selection(s, pane_id) ==
    IF pane_id # None
    THEN PopAll(s.items, s.total, {k \in DOMAIN s.items : k[1] = pane_id})
    ELSE SelState(EmptyInfo, 0, RetNone)

\* An item of the list given to select_all_in_pane: a dict that may carry
\* 'full_path', 'path' and 'size'.
ItemPath(item) ==
    IF "full_path" \in DOMAIN item /\ item["full_path"] # NoPath THEN item["full_path"]
    ELSE IF "path" \in DOMAIN item THEN item["path"] ELSE NoPath

ListItems ==
    {[full_path |-> <<"f">>, size |-> 1],
     [full_path |-> NoPath, path |-> <<"d">>],
     [size |-> 2]}

FileLists == UNION {[1..n -> ListItems] : n \in {0, 2}}

\* SelectionManager.select_all_in_pane: the loop over file_list, counting
RECURSIVE SelectAllFrom(_, _, _, _, _)
SelectAllFrom(s, file_list, i, pane, count) ==
    IF i > Len(file_list) THEN SelState(s.items, s.total, RetCount(count))
    ELSE LET item == file_list[i]
             path == ItemPath(item)
         IN  IF path # NoPath /\ ~is_selected(s.items, path, pane)
             THEN SelectAllFrom(select_item(s, path, item, pane), file_list, i + 1, pane, count + 1)
             ELSE SelectAllFrom(s, file_list, i + 1, pane, count)

select_all_in_pane(s, file_list, pane) == SelectAllFrom(s, file_list, 1, pane, 0)

Sel == SelState(selected_items, total_size, sel_ret)

\* the keys whose state is tracked, and the state a key press reports
Keys == {"ctrl"}
KeyStates == {TRUE}
\* what the last call was given and which keys it removed (history, not data)
NoLast == [pane |-> None, removed |-> {}]

\* the manager takes the value s; the panes stay where they are
SelBecomes(s) ==
    /\ Cardinality(DOMAIN s.items) <= MaxSelected
    /\ selected_items' = s.items
    /\ total_size' = s.total
    /\ sel_ret' = s.ret

SetCurrentPane(p) ==
    /\ current_pane' = p
    /\ sel_op' = "set_current_pane"
    /\ UNCHANGED <<keys_held, nonSel>>
    /\ sel_last' = NoLast
    /\ sel_ret' = RetNone
    /\ UNCHANGED <<selected_items, total_size, current_directory>>

SelectItem(path, info, pane_id) ==
    /\ SelBecomes(select_item(Sel, path, info, PaneOrCurrent(pane_id)))
    /\ sel_op' = "select_item"
    /\ UNCHANGED <<keys_held, nonSel>>
    /\ sel_last' = NoLast
    /\ UNCHANGED <<current_pane, current_directory>>

DeselectItem(path, pane_id) ==
    /\ SelBecomes(deselect_item(Sel, path, PaneOrCurrent(pane_id)))
    /\ sel_op' = "deselect_item"
    /\ UNCHANGED <<keys_held, nonSel>>
    /\ sel_last' = NoLast
    /\ UNCHANGED <<current_pane, current_directory>>

ToggleSelection(path, info, pane_id) ==
    /\ SelBecomes(toggle_selection(Sel, path, info, PaneOrCurrent(pane_id)))
    /\ sel_op' = "toggle_selection"
    /\ UNCHANGED <<keys_held, nonSel>>
    /\ sel_last' = NoLast
    /\ UNCHANGED <<current_pane, current_directory>>

SelectAllInPane(file_list, pane_id) ==
    /\ SelBecomes(select_all_in_pane(Sel, file_list, PaneOrCurrent(pane_id)))
    /\ sel_op' = "select_all_in_pane"
    /\ UNCHANGED <<keys_held, nonSel>>
    /\ sel_last' = NoLast
    /\ UNCHANGED <<current_pane, current_directory>>

ClearSelection(pane_id) ==
    /\ SelBecomes(clear_selection(Sel, pane_id))
    /\ sel_op' = "clear_selection"
    /\ sel_last' = [pane |-> pane_id,
                    removed |-> DOMAIN selected_items
                                  \ DOMAIN clear_selection(Sel, pane_id).items]
    /\ UNCHANGED <<keys_held, nonSel>>
    /\ UNCHANGED <<current_pane, current_directory>>

\* WestyFileList.changeDir: the pane shows `directory`; the selection manager is
\* not touched.
ChangeDir(p, directory) ==
    /\ sel_op' = "changeDir"
    /\ UNCHANGED <<keys_held, nonSel>>
    /\ sel_last' = NoLast
    /\ current_directory' = [current_directory EXCEPT ![p] = directory]
    /\ sel_ret' = RetBool(TRUE)
    /\ UNCHANGED <<selected_items, total_size, current_pane>>

\* WestyFileList.refresh: changeDir(self.current_directory)
Refresh(p) ==
    /\ sel_op' = "refresh"
    /\ UNCHANGED <<keys_held, nonSel>>
    /\ sel_last' = NoLast
    /\ current_directory' = [current_directory EXCEPT ![p] = current_directory[p]]
    /\ sel_ret' = RetNone
    /\ UNCHANGED <<selected_items, total_size, current_pane>>

\* WestyFileList.descent on a highlighted directory entry: changeDir into it, then
\* clear_selection(self.pane_id)
Descent(p, sub) ==
    /\ sel_op' = "descent"
    /\ UNCHANGED <<keys_held, nonSel>>
    /\ sel_last' = NoLast
    /\ sub \in SubDirs(current_directory[p])
    /\ current_directory' = [current_directory EXCEPT ![p] = sub]
    /\ LET s == clear_selection(Sel, p) IN
        /\ selected_items' = s.items
        /\ total_size' = s.total
    /\ sel_ret' = RetBool(TRUE)
    /\ UNCHANGED current_pane

\* WestyFileList.descent when the highlighted entry is a file (or nothing)
DescentRefused(p) ==
    /\ sel_op' = "descent"
    /\ UNCHANGED <<keys_held, nonSel>>
    /\ sel_last' = NoLast
    /\ sel_ret' = RetBool(FALSE)
    /\ UNCHANGED <<selected_items, total_size, current_pane, current_directory>>

\* WestyFileList.handleOk: toggle the highlighted entry of the pane's directory,
\* then refresh
HandleOk(p, name, info) ==
    /\ sel_op' = "handleOk"
    /\ UNCHANGED <<keys_held, nonSel>>
    /\ sel_last' = NoLast
    /\ name \in Entries(current_directory[p])
    /\ LET s == toggle_selection(Sel, Join(current_directory[p], name), info, p) IN
        /\ Cardinality(DOMAIN s.items) <= MaxSelected
        /\ selected_items' = s.items
        /\ total_size' = s.total
    /\ sel_ret' = RetBool(TRUE)
    /\ UNCHANGED <<current_pane, current_directory>>

\* SelectionManager.set_key_state
SetKeyState(key, state) ==
    /\ keys_held' = DictPut(keys_held, key, state)
    /\ sel_op' = "set_key_state"
    /\ sel_ret' = RetNone
    /\ sel_last' = NoLast
    /\ UNCHANGED <<selected_items, total_size, current_pane, current_directory, nonSel>>

\* SelectionManager.clear_key_states
ClearKeyStates ==
    /\ keys_held' = EmptyInfo
    /\ sel_op' = "clear_key_states"
    /\ sel_ret' = RetNone
    /\ sel_last' = NoLast
    /\ UNCHANGED <<selected_items, total_size, current_pane, current_directory, nonSel>>

SelInit ==
    /\ selected_items = EmptyInfo
    /\ total_size = 0
    /\ current_pane = "left"
    /\ current_directory = [p \in Panes |-> RootDir]
    /\ sel_ret = RetNone
    /\ sel_op = "__init__"
    /\ keys_held = EmptyInfo
    /\ sel_last = NoLast

SelNext ==
    \/ \E p \in Panes : SetCurrentPane(p)
    \/ \E path \in SelPaths, info \in Infos, p \in Panes \cup {None} : SelectItem(path, info, p)
    \/ \E path \in SelPaths, p \in Panes \cup {None} : DeselectItem(path, p)
    \/ \E path \in SelPaths, info \in Infos, p \in Panes \cup {None} : ToggleSelection(path, info, p)
    \/ \E fl \in FileLists, p \in Panes \cup {None} : SelectAllInPane(fl, p)
    \/ \E p \in Panes \cup {None} : ClearSelection(p)
    \/ \E p \in Panes, d \in Dirs : ChangeDir(p, d)
    \/ \E p \in Panes : Refresh(p)
    \/ \E p \in Panes, d \in Dirs : Descent(p, d)
    \/ \E p \in Panes : DescentRefused(p)
    \/ \E p \in Panes, n \in {"f", "d"}, info \in Infos : HandleOk(p, n, info)
    \/ \E key \in Keys, state \in KeyStates : SetKeyState(key, state)
    \/ ClearKeyStates


(***************************************************************************)
(*                     FileInfoCache and ImageCache                        *)
(***************************************************************************)

\* The model's bound: how far the clock runs.
MaxTime == 3

\* FileInfoCache(max_size=1000, ttl=300) and the cache_size choices 500 / 1000 /
\* 2000 of Setup.py, scaled to a ttl of 2 ticks and sizes 1 / 2 / 3; ImageCache's
\* max_size of 50 scaled to 1.
TTL == 2
DefaultMaxSize == 2
CacheSizeChoices == {1, 2, 3}
ImageMaxSize == 1

\* Cached paths are strings, here sequences of characters: "ax", "ay", "b".
CacheKeys == {<<"a", "x">>, <<"a", "y">>, <<"b">>}
\* the directory prefixes given to invalidate_directory: "a", "b", ""
DirPrefixes == {<<"a">>, <<"b">>, <<>>}
\* what getter_func can return for a path; 0 stands for "it raised"
InfoValues == {1, 2}
Raised == 0
IconKeys == {<<"i">>, <<"j">>}

Entry(k, v, ts) == [key |-> k, info |-> v, ts |-> ts]
KeysOf(c) == {c[i].key : i \in 1..Len(c)}
EntryOf(c, k) == c[CHOOSE i \in 1..Len(c) : c[i].key = k]
\* del self.cache[key]
Remove(c, k) == SelectSeq(c, LAMBDA e : e.key # k)
\* str.startswith
StartsWith(str, prefix) ==
    Len(prefix) <= Len(str) /\ SubSeq(str, 1, Len(prefix)) = prefix

\* now - timestamp < self.ttl
IsFreshInclusive(n, ts) == n - ts <= TTL
IsFresh(n, ts) == n - ts < TTL

\* OrderedDict.move_to_end(key)
MoveToEndForgotten(c, k) == c
MoveToEnd(c, k) == Append(Remove(c, k), EntryOf(c, k))

\* OrderedDict.popitem(last=False)
PopOldest(c) == Tail(c)

\* FileInfoCache._add_to_cache
add_to_cache(c, k, v, ts, max) ==
    LET c1 == IF k \in KeysOf(c) THEN Remove(c, k) ELSE c
        c2 == Append(c1, Entry(k, v, ts))
    IN  IF Len(c2) > max THEN PopOldest(c2) ELSE c2

\* The record of a cache call: what it was given (key, and fresh, the value
\* getter_func had to give), what it found (old: the entry of key; was_full:
\* len(cache) >= max_size; oldest: the path accessed longest ago; others_full and
\* oldest_other: the same over the entries of the other paths) and what it did
\* (outcome, ret, getter_called, removed: the paths whose entry it took out).
CacheOp(op, k, outcome, ret, fresh, called, old, removed, facts) ==
    [op |-> op, key |-> k, outcome |-> outcome, ret |-> ret, fresh |-> fresh,
     getter_called |-> called, old |-> old, removed |-> removed,
     was_full |-> facts[1], oldest |-> facts[2],
     others_full |-> facts[3], oldest_other |-> facts[4]]
NoEntry == Entry(NoPath, 0, 0)
PlainOp(op, k) ==
    CacheOp(op, k, "none", 0, 0, FALSE, NoEntry, {}, <<FALSE, NoPath, FALSE, NoPath>>)

\* the order of last access by get, after path has been accessed and the paths
\* in `gone` have left the cache
Touch(order, path, gone) ==
    Append(SelectSeq(order, LAMBDA k : k # path /\ k \notin gone), path)
Forget(order, gone) == SelectSeq(order, LAMBDA k : k \notin gone)
OldestOf(order) == IF order = <<>> THEN NoPath ELSE Head(order)

\* FileInfoCache.get(path, getter_func), where getter_func(path) gives `fresh`
\* (or raises)
Get(path, fresh) ==
    LET had == path \in KeysOf(cache)
        old == IF had THEN EntryOf(cache, path) ELSE NoEntry
        others == Forget(lru, {path})
        facts == <<Len(cache) >= max_size, OldestOf(lru),
                   Len(others) >= max_size, OldestOf(others)>>
    IN
    IF had /\ IsFresh(now, old.ts)
    THEN \* a hit: move to the end and return the stored info; getter_func is
         \* not called, so only one value of `fresh` is taken
         /\ fresh = Raised
         /\ cache' = MoveToEnd(cache, path)
         /\ lru' = Touch(lru, path, {})
         /\ cache_op' = CacheOp("get", path, "hit", old.info, 0, FALSE, old, {}, facts)
    ELSE LET c1 == IF had THEN Remove(cache, path) ELSE cache IN
         IF fresh = Raised
         THEN \* getter_func raised: the expired entry is gone, nothing is stored
              /\ cache' = c1
              /\ lru' = Forget(lru, {path})
              /\ cache_op' = CacheOp("get", path, "raised", Raised, Raised, TRUE, old,
                                     IF had THEN {path} ELSE {}, facts)
         ELSE LET c2 == add_to_cache(c1, path, fresh, now, max_size)
                  gone == KeysOf(cache) \ KeysOf(c2)
              IN  /\ cache' = c2
                  /\ lru' = IF path \in KeysOf(c2) THEN Touch(lru, path, gone)
                                                   ELSE Forget(lru, gone \cup {path})
                  /\ cache_op' = CacheOp("get", path, IF had THEN "expired" ELSE "miss",
                                         fresh, fresh, TRUE, old,
                                         gone \cup (IF had THEN {path} ELSE {}), facts)

CacheGet(path, fresh) ==
    /\ Get(path, fresh)
    /\ UNCHANGED <<max_size, now, icache, nonCache>>

\* FileInfoCache.invalidate
Invalidate(path) ==
    /\ cache' = Remove(cache, path)
    /\ lru' = Forget(lru, {path})
    /\ cache_op' = PlainOp("invalidate", path)
    /\ UNCHANGED <<max_size, now, icache, nonCache>>

\* FileInfoCache.invalidate_directory
InvalidateDirectory(dir_path) ==
    LET to_remove == {k \in KeysOf(cache) : StartsWith(k, dir_path)} IN
    /\ cache' = SelectSeq(cache, LAMBDA e : e.key \notin to_remove)
    /\ lru' = Forget(lru, to_remove)
    /\ cache_op' = PlainOp("invalidate_directory", dir_path)
    /\ UNCHANGED <<max_size, now, icache, nonCache>>

\* FileInfoCache.clear
CacheClear ==
    /\ cache' = <<>>
    /\ lru' = <<>>
    /\ cache_op' = PlainOp("clear", NoPath)
    /\ UNCHANGED <<max_size, now, icache, nonCache>>

\* WestyFileList.__init__: self.file_cache.max_size = self.cache_size
SetMaxSize(n) ==
    /\ max_size' = n
    /\ cache_op' = PlainOp("set_max_size", NoPath)
    /\ UNCHANGED <<cache, lru, now, icache, nonCache>>

\* time passes
Tick ==
    /\ now < MaxTime
    /\ now' = now + 1
    /\ cache_op' = PlainOp("tick", NoPath)
    /\ UNCHANGED <<cache, lru, max_size, icache, nonCache>>

\* ImageCache.get_icon
GetIcon(icon_path) ==
    /\ IF icon_path \in KeysOf(icache)
       THEN icache' = MoveToEnd(icache, icon_path)
       ELSE LET c2 == Append(icache, Entry(icon_path, 1, 0)) IN
            icache' = IF Len(c2) > ImageMaxSize THEN PopOldest(c2) ELSE c2
    /\ cache_op' = PlainOp("get_icon", icon_path)
    /\ UNCHANGED <<cache, lru, max_size, now, nonCache>>

\* ImageCache.clear
ImageClear ==
    /\ icache' = <<>>
    /\ cache_op' = PlainOp("image_clear", NoPath)
    /\ UNCHANGED <<cache, lru, max_size, now, nonCache>>

CacheInit ==
    /\ cache = <<>>
    /\ max_size = DefaultMaxSize
    /\ now = 0
    /\ icache = <<>>
    /\ cache_op = PlainOp("__init__", NoPath)
    /\ lru = <<>>

CacheNext ==
    \/ \E k \in CacheKeys, v \in InfoValues \cup {Raised} : CacheGet(k, v)
    \/ \E k \in CacheKeys : Invalidate(k)
    \/ \E d \in DirPrefixes : InvalidateDirectory(d)
    \/ CacheClear
    \/ \E n \in CacheSizeChoices : SetMaxSize(n)
    \/ Tick
    \/ \E k \in IconKeys : GetIcon(k)
    \/ ImageClear


(***************************************************************************)
(*        BatchOperations and SmartDirectoryManager on a filesystem        *)
(***************************************************************************)

\* chunk_size = 64 * 1024, scaled to 2 bytes
ChunkSize == 2
\* passes: int = 3 of BatchOperations.batch_delete, and the three passes that
\* SmartDirectoryManager.batch_delete always makes
DefaultPasses == 3
PassChoices == {1, DefaultPasses}
\* the byte that random.randint(0, 255) writes, told apart from file content
RandomByte == 0

\* Paths are sequences of names. Two directories /s and /t; a file a, a directory
\* d holding a file x, a name m that nothing carries, a name b to rename to.
S == <<"s">>
T == <<"t">>
TopNames == {"a", "d", "m", "b"}
FsPaths ==
    {S, T} \cup {<<r, n>> : r \in {"s", "t"}, n \in TopNames}
           \cup {<<r, n, "x">> : r \in {"s", "t"}, n \in TopNames}

Absent == [kind |-> "none", data |-> <<>>, ow |-> 0]
DirNode == [kind |-> "dir", data |-> <<>>, ow |-> 0]
\* a regular file: its bytes, and the number of complete overwrite passes they
\* have been through
FileNode(data, ow) == [kind |-> "file", data |-> data, ow |-> ow]

\* the contents a source file starts with: lengths 0, 1, 2 (one chunk), 3
FileDatas == {<<>>, <<1>>, <<1, 2>>, <<1, 2, 3>>}

basename(p) == p[Len(p)]
dirname(p) == SubSeq(p, 1, Len(p) - 1)
join(d, n) == Append(d, n)
IsUnder(p, q) == Len(p) <= Len(q) /\ SubSeq(q, 1, Len(p)) = p
exists(f, p) == p \in FsPaths /\ f[p].kind # "none"
isdir(f, p) == p \in FsPaths /\ f[p].kind = "dir"
isfile(f, p) == p \in FsPaths /\ f[p].kind = "file"
\* os.listdir, as a sequence in name order
listdir(f, p) ==
    LET names == {n \in {"x"} \cup TopNames : exists(f, join(p, n))}
        order == <<"a", "b", "d", "m", "x">>
    IN  SelectSeq(order, LAMBDA n : n \in names)
\* the regular files at or under p
FilesUnder(f, p) == {q \in FsPaths : IsUnder(p, q) /\ isfile(f, q)}

\* os.remove / shutil.rmtree: p and everything under it is gone
remove(f, p) == [q \in FsPaths |-> IF IsUnder(p, q) THEN Absent ELSE f[q]]
\* os.makedirs(p, exist_ok=True)
makedirs(f, p) == [f EXCEPT ![p] = DirNode]
\* os.rename / shutil.move onto a path that does not exist: the tree at src is
\* found at dst
Relocated(src, dst, q) == src \o SubSeq(q, Len(dst) + 1, Len(q))
rename(f, src, dst) ==
    [q \in FsPaths |->
        IF IsUnder(dst, q)
        THEN (IF Relocated(src, dst, q) \in FsPaths THEN f[Relocated(src, dst, q)] ELSE Absent)
        ELSE IF IsUnder(src, q) THEN Absent ELSE f[q]]
\* shutil.copy2 / shutil.copytree: the tree at src is also found at dst
copytree(f, src, dst) ==
    [q \in FsPaths |->
        IF IsUnder(dst, q) /\ Relocated(src, dst, q) \in FsPaths
                           /\ exists(f, Relocated(src, dst, q))
        THEN f[Relocated(src, dst, q)]
        ELSE f[q]]
\* open(p, 'wb'): the file is created or truncated
open_wb(f, p) == [f EXCEPT ![p] = FileNode(<<>>, 0)]
\* fsrc.read(chunk_size) at position pos
read(f, p, pos) ==
    IF isfile(f, p) /\ pos < Len(f[p].data)
    THEN SubSeq(f[p].data, pos + 1, IF pos + ChunkSize < Len(f[p].data)
                                    THEN pos + ChunkSize ELSE Len(f[p].data))
    ELSE <<>>
\* fdst.write(chunk)
write(f, p, chunk) == [f EXCEPT ![p] = FileNode(f[p].data \o chunk, 0)]
\* one pass of _secure_delete_file: seek(0), file_size random bytes
overwrite_pass(f, p, file_size) ==
    [f EXCEPT ![p] = FileNode([k \in 1..file_size |-> RandomByte], f[p].ow + 1)]

\* ---- the shapes of the batch state

NoCall ==
    [cls |-> "none", op |-> "none", paths |-> <<>>, names |-> <<>>, dest |-> T,
     overwrite |-> FALSE, secure |-> FALSE, passes |-> 0, recursive |-> FALSE]
NoCopy ==
    [src |-> NoPath, dst |-> NoPath, pos |-> 0, copied |-> 0, src0 |-> <<>>,
     dir_src |-> NoPath, dir_dst |-> NoPath, todo |-> <<>>, pass |-> 0, size |-> 0]
\* results = {'success': [], 'failed': [], 'skipped': [], 'total': len(paths)};
\* error tells whether the returned dictionary carries the 'error' key
NewResults(n) ==
    [success |-> <<>>, failed |-> <<>>, skipped |-> <<>>, total |-> n, error |-> FALSE]
NoCopyDone == [fin |-> FALSE, src0 |-> <<>>, dst |-> <<>>, count |-> 0]
\* what is observed of a call: whether and when request_cancel was called after
\* its entry (cancel_at: how many items had been started), whether an item after
\* that one was started, how many chunks were written after the request, which
\* regular files a secure delete removed and after how many passes, and what the
\* last completed file copy read, wrote and counted; the filesystem the call
\* found (fs0); for smartMove whether it renamed or copied, and what comparePaths
\* said; the paths os.chmod has set to the mode of the call (chmod)
EmptyFs == [q \in FsPaths |-> Absent]
NoWatch ==
    [cancel_called |-> FALSE, cancel_at |-> 0, late_op |-> FALSE, chunks_after |-> 0,
     removed |-> {}, copy |-> NoCopyDone, fs0 |-> EmptyFs, via |-> "none",
     verified |-> FALSE, chmod |-> {}]
Watching(f) == [NoWatch EXCEPT !.fs0 = f]

\* results[bucket].append({...})
RecordDropsSkipped(res, bucket, p) ==
    IF bucket = "skipped" THEN res ELSE [res EXCEPT ![bucket] = Append(@, p)]
Record(res, bucket, p) == [res EXCEPT ![bucket] = Append(@, p)]

\* what the body of the loop did with one item: the filesystem it leaves, the
\* bucket the item went to, whether the progress callback was reached, and the
\* regular files it removed
Out(f, bucket, cb) == [fs |-> f, bucket |-> bucket, cb |-> cb, gone |-> {}]

\* the body of the loop of batch_move (both classes); fail: shutil.move raises
move_item(f, src, dest_dir, overwrite, fail) ==
    IF ~exists(f, src) THEN Out(f, "failed", FALSE)
    ELSE LET dest_path == join(dest_dir, basename(src)) IN
         IF exists(f, dest_path) /\ ~overwrite THEN Out(f, "skipped", FALSE)
         ELSE LET f1 == IF exists(f, dest_path) THEN remove(f, dest_path) ELSE f IN
              IF fail \/ ~exists(f1, src)
              THEN Out(f1, "failed", TRUE)
              ELSE Out(rename(f1, src, dest_path), "success", TRUE)

\* the body of the loop of batch_rename (both classes); fail: os.rename raises
rename_item(f, old_path, new_name, fail) ==
    IF new_name = "" THEN Out(f, "failed", FALSE)
    ELSE IF ~exists(f, old_path) THEN Out(f, "failed", FALSE)
    ELSE LET new_path == join(dirname(old_path), new_name) IN
         IF exists(f, new_path) THEN Out(f, "failed", FALSE)
         ELSE IF fail THEN Out(f, "failed", TRUE)
         ELSE Out(rename(f, old_path, new_path), "success", TRUE)

\* the body of the loop of SmartDirectoryManager.batch_copy; fail: shutil raises
sdm_copy_item(f, src, dest_dir, overwrite, fail) ==
    IF ~exists(f, src) THEN Out(f, "failed", FALSE)
    ELSE LET dest_path == join(dest_dir, basename(src)) IN
         IF exists(f, dest_path) /\ ~overwrite THEN Out(f, "skipped", FALSE)
         ELSE IF isdir(f, src)
         THEN IF isfile(f, dest_path) THEN Out(f, "failed", FALSE)
              ELSE LET f1 == IF exists(f, dest_path) THEN remove(f, dest_path) ELSE f IN
                   IF fail \/ ~exists(f1, src) THEN Out(f1, "failed", FALSE)
                   ELSE Out(copytree(f1, src, dest_path), "success", FALSE)
         ELSE IF fail \/ dest_path = src \/ isdir(f, dest_path) THEN Out(f, "failed", FALSE)
              ELSE Out(copytree(f, src, dest_path), "success", FALSE)

\* the regular files that removing p takes away, each with the passes it has had
Removed(f, p) == {[path |-> q, ow |-> f[q].ow] : q \in FilesUnder(f, p)}

RECURSIVE Passes(_, _, _, _)
Passes(f, p, file_size, n) ==
    IF n = 0 THEN f ELSE Passes(overwrite_pass(f, p, file_size), p, file_size, n - 1)

\* the body of the loop of SmartDirectoryManager.batch_delete; fail_ow: the
\* overwrite raises at open() (swallowed by the bare except); fail: the removal
\* raises
sdm_delete_item(f, path, secure, fail_ow, fail) ==
    IF ~exists(f, path) THEN Out(f, "failed", FALSE)
    ELSE LET f1 == IF secure /\ isfile(f, path) /\ ~fail_ow
                   THEN Passes(open_wb(f, path), path, Len(f[path].data), DefaultPasses)
                   ELSE f
         IN  IF fail THEN Out(f1, "failed", FALSE)
             ELSE [Out(remove(f1, path), "success", FALSE) EXCEPT !.gone = Removed(f1, path)]

\* ---- the inputs

A == <<"s", "a">>
D == <<"s", "d">>
M == <<"s", "m">>
TA == <<"t", "a">>
TD == <<"t", "d">>
DestDirs == {T, S}
PathLists == {<<>>, <<A>>, <<D>>, <<M>>, <<TA>>, <<A, D>>, <<M, A>>, <<D, A>>, <<A, A>>}
\* rename_list: the old_path and the new_name of each item ("" : no new_name)
RenameLists ==
    {[paths |-> <<A>>, names |-> <<"b">>], [paths |-> <<A>>, names |-> <<"">>],
     [paths |-> <<M>>, names |-> <<"b">>], [paths |-> <<D>>, names |-> <<"a">>],
     [paths |-> <<A, D>>, names |-> <<"b", "b">>]}
Classes == {"BO", "SDM"}
Call(cls, op, paths, names, dest, overwrite, secure, passes) ==
    [cls |-> cls, op |-> op, paths |-> paths, names |-> names, dest |-> dest,
     overwrite |-> overwrite, secure |-> secure, passes |-> passes,
     recursive |-> FALSE]
\* batch_chmod(paths, mode, recursive)
ChmodCall(cls, paths, recursive) ==
    [Call(cls, "batch_chmod", paths, <<>>, T, FALSE, FALSE, 0)
        EXCEPT !.recursive = recursive]
BatchCalls ==
    {Call(c, op, l, <<>>, d, ow, FALSE, 0) :
        c \in Classes, op \in {"batch_copy", "batch_move"}, l \in PathLists,
        d \in DestDirs, ow \in BOOLEAN}
    \cup {Call("BO", "batch_delete", l, <<>>, T, FALSE, TRUE, n) :
            l \in PathLists, n \in PassChoices}
    \cup {Call(c, "batch_delete", l, <<>>, T, FALSE, FALSE, DefaultPasses) :
            c \in Classes, l \in PathLists}
    \cup {Call("SDM", "batch_delete", l, <<>>, T, FALSE, TRUE, DefaultPasses) :
            l \in PathLists}
    \cup {Call(c, "batch_rename", r.paths, r.names, T, FALSE, FALSE, 0) :
            c \in Classes, r \in RenameLists}
    \cup {ChmodCall(c, l, r) : c \in Classes, l \in PathLists, r \in BOOLEAN}

\* the filesystems a call can find: /s holds a (any of the contents) and d with
\* its file x; /t is missing, empty, or holds an a and a d of its own
InitialFs(data, t) ==
    [q \in FsPaths |->
        IF q = S \/ q = D THEN DirNode
        ELSE IF q = A THEN FileNode(data, 0)
        ELSE IF q = <<"s", "d", "x">> THEN FileNode(<<4>>, 0)
        ELSE IF q = T /\ t # "absent" THEN DirNode
        ELSE IF q = TA /\ t = "full" THEN FileNode(<<5>>, 0)
        ELSE IF q = <<"t", "d">> /\ t = "full" THEN DirNode
        ELSE IF q = <<"t", "d", "x">> /\ t = "full" THEN FileNode(<<6>>, 0)
        ELSE Absent]

BatchInit ==
    /\ fs = InitialFs(<<>>, "absent")
    /\ cancel_requested = FALSE
    /\ call = NoCall
    /\ pc = "idle"
    /\ index = 1
    /\ results = NewResults(0)
    /\ cp = NoCopy
    /\ returned = "nothing"
    /\ watch = NoWatch

\* ---- the steps of a call

\* how many items of the list have been started
StartedItems == IF pc \in {"entered", "loop"} THEN index - 1 ELSE index
NoteCancel(w, at) ==
    IF w.cancel_called THEN w ELSE [w EXCEPT !.cancel_called = TRUE, !.cancel_at = at]
\* item `index` is being started
NoteStart(w) == [w EXCEPT !.late_op = @ \/ (w.cancel_called /\ index > w.cancel_at)]

\* between calls the user's files change: a call finds any of the filesystems
Populate(data, t) ==
    /\ pc = "idle"
    /\ fs' = InitialFs(data, t)
    /\ UNCHANGED <<cancel_requested, call, index, results, cp, returned, watch, pc, nonBatch>>

\* BatchOperations.request_cancel, called from another thread
RequestCancel ==
    /\ cancel_requested' = TRUE
    /\ watch' = IF call.cls = "BO" /\ pc \notin {"idle", "done"}
                THEN NoteCancel(watch, StartedItems) ELSE watch
    /\ UNCHANGED <<fs, call, pc, index, results, cp, returned, nonBatch>>

\* a batch method is called
BatchEnter(c) ==
    /\ pc = "idle"
    /\ call' = c
    /\ pc' = "entered"
    /\ index' = 1
    /\ results' = NewResults(Len(c.paths))
    /\ cp' = NoCopy
    /\ returned' = "nothing"
    /\ watch' = Watching(fs)
    /\ UNCHANGED <<fs, cancel_requested, nonBatch>>

\* self.reset_cancel() (BatchOperations only), the results dictionary, and for
\* batch_copy / batch_move the destination directory; mk_fails: os.makedirs raises
Prepare(mk_fails) ==
    /\ pc = "entered"
    /\ cancel_requested' = IF call.cls = "BO" THEN FALSE ELSE cancel_requested
    /\ IF call.op \in {"batch_copy", "batch_move"} /\ ~exists(fs, call.dest)
       THEN IF mk_fails
            THEN /\ results' = [results EXCEPT !.error = TRUE]
                 /\ pc' = "done"
                 /\ returned' = "results"
                 /\ fs' = fs
            ELSE /\ fs' = makedirs(fs, call.dest)
                 /\ pc' = "loop"
                 /\ UNCHANGED <<results, returned>>
       ELSE /\ pc' = "loop"
            /\ UNCHANGED <<fs, results, returned>>
    /\ UNCHANGED <<call, index, cp, watch, nonBatch>>

\* the for loop is through: return results
LoopReturn ==
    /\ pc = "loop"
    /\ index > Len(call.paths)
    /\ pc' = "done"
    /\ returned' = "results"
    /\ UNCHANGED <<fs, cancel_requested, call, index, results, cp, watch, nonBatch>>

\* self._check_cancel() at the top of the loop body, outside the try: the
\* OperationCancelled it raises leaves the method
LoopCancelled ==
    /\ pc = "loop"
    /\ index <= Len(call.paths)
    /\ call.cls = "BO"
    /\ cancel_requested
    /\ pc' = "done"
    /\ returned' = "OperationCancelled"
    /\ UNCHANGED <<fs, cancel_requested, call, index, results, cp, watch, nonBatch>>

\* the loop body can start on item `index`
CanStart ==
    /\ pc = "loop"
    /\ index <= Len(call.paths)
    /\ ~(call.cls = "BO" /\ cancel_requested)

\* the item went to `bucket`; on to the next one
NextItem(f, bucket) ==
    /\ fs' = f
    /\ results' = Record(results, bucket, call.paths[index])
    /\ index' = index + 1
    /\ pc' = "loop"
    /\ cp' = NoCopy

\* self._update_progress(...): the callback may call request_cancel
Callback(reached, cb_cancel, w) ==
    IF call.cls = "BO" /\ reached /\ cb_cancel
    THEN /\ cancel_requested' = TRUE
         /\ watch' = NoteCancel(w, index)
    ELSE /\ cancel_requested' = cancel_requested
         /\ watch' = w

\* a loop body that runs in one piece
ItemDone(out, cb_cancel) ==
    /\ NextItem(out.fs, out.bucket)
    /\ Callback(out.cb, cb_cancel,
                [NoteStart(watch) EXCEPT !.removed =
                    IF call.secure THEN @ \cup out.gone ELSE @])
    /\ UNCHANGED <<call, returned, nonBatch>>

\* batch_move, one item
MoveItem(cb_cancel, fail) ==
    /\ CanStart
    /\ call.op = "batch_move"
    /\ ItemDone(move_item(fs, call.paths[index], call.dest, call.overwrite, fail), cb_cancel)

\* batch_rename, one item
RenameItem(cb_cancel, fail) ==
    /\ CanStart
    /\ call.op = "batch_rename"
    /\ ItemDone(rename_item(fs, call.paths[index], call.names[index], fail), cb_cancel)

\* SmartDirectoryManager.batch_copy, one item
SDMCopyItem(fail) ==
    /\ CanStart
    /\ call.cls = "SDM"
    /\ call.op = "batch_copy"
    /\ ItemDone(sdm_copy_item(fs, call.paths[index], call.dest, call.overwrite, fail), FALSE)

\* SmartDirectoryManager.batch_delete, one item
SDMDeleteItem(fail_ow, fail) ==
    /\ CanStart
    /\ call.cls = "SDM"
    /\ call.op = "batch_delete"
    /\ ItemDone(sdm_delete_item(fs, call.paths[index], call.secure, fail_ow, fail), FALSE)

\* the start of BatchOperations._copy_file(src, dst): os.remove(dst) if it exists
\* and overwrite, then open(src, 'rb') and open(dst, 'wb'); fail: open(dst) raises
copy_file_open(f, src, dst, overwrite, fail) ==
    IF exists(f, dst) /\ overwrite /\ isdir(f, dst) THEN [fs |-> f, ok |-> FALSE]
    ELSE LET f1 == IF exists(f, dst) /\ overwrite THEN remove(f, dst) ELSE f IN
         IF ~isfile(f1, src) \/ isdir(f1, dst) \/ fail
         THEN [fs |-> f1, ok |-> FALSE]
         ELSE [fs |-> open_wb(f1, dst), ok |-> TRUE]

\* the locals of a _copy_file that has opened its files
Copying(src, dst, src0, dir_src, dir_dst, todo) ==
    [NoCopy EXCEPT !.src = src, !.dst = dst, !.src0 = src0,
                   !.dir_src = dir_src, !.dir_dst = dir_dst, !.todo = todo]

\* BatchOperations.batch_copy, one item up to the first chunk (a file) or the
\* first entry (a directory)
BOCopyItem(cb_cancel, fail) ==
    /\ CanStart
    /\ call.cls = "BO"
    /\ call.op = "batch_copy"
    /\ LET src == call.paths[index]
           dest_path == join(call.dest, basename(src))
           w == NoteStart(watch)
       IN
       IF ~exists(fs, src)
       THEN NextItem(fs, "failed") /\ Callback(FALSE, cb_cancel, w)
       ELSE IF exists(fs, dest_path) /\ ~call.overwrite
       THEN NextItem(fs, "skipped") /\ Callback(FALSE, cb_cancel, w)
       ELSE /\ Callback(TRUE, cb_cancel, w)
            /\ IF isdir(fs, src)
               THEN \* _copy_directory: os.makedirs(dst, exist_ok=True), os.listdir(src)
                    IF isfile(fs, dest_path) \/ fail
                    THEN NextItem(fs, "failed")
                    ELSE /\ fs' = makedirs(fs, dest_path)
                         /\ cp' = Copying(NoPath, NoPath, <<>>, src, dest_path,
                                          listdir(makedirs(fs, dest_path), src))
                         /\ pc' = "dir_item"
                         /\ UNCHANGED <<index, results>>
               ELSE LET o == copy_file_open(fs, src, dest_path, call.overwrite, fail) IN
                    IF o.ok
                    THEN /\ fs' = o.fs
                         /\ cp' = Copying(src, dest_path, fs[src].data, NoPath, NoPath, <<>>)
                         /\ pc' = "chunk_check"
                         /\ UNCHANGED <<index, results>>
                    ELSE NextItem(o.fs, "failed")
    /\ UNCHANGED <<call, returned, nonBatch>>

\* _copy_directory, one entry: self._check_cancel(), then _copy_file of the entry
\* up to its first chunk; after the last entry the directory is done
DirItem(fail) ==
    /\ pc = "dir_item"
    /\ IF cancel_requested
       THEN NextItem(fs, "failed")
       ELSE IF cp.todo = <<>>
       THEN NextItem(fs, "success")
       ELSE LET src == join(cp.dir_src, Head(cp.todo))
                dst == join(cp.dir_dst, Head(cp.todo))
                o == copy_file_open(fs, src, dst, call.overwrite, fail)
            IN  IF o.ok
                THEN /\ fs' = o.fs
                     /\ cp' = Copying(src, dst, fs[src].data, cp.dir_src, cp.dir_dst,
                                      Tail(cp.todo))
                     /\ pc' = "chunk_check"
                     /\ UNCHANGED <<index, results>>
                ELSE NextItem(o.fs, "failed")
    /\ UNCHANGED <<cancel_requested, call, returned, watch, nonBatch>>

\* _copy_file: self._check_cancel() before each read; the OperationCancelled it
\* raises is caught by the except of the loop body
ChunkCheck ==
    /\ pc = "chunk_check"
    /\ IF cancel_requested
       THEN NextItem(fs, "failed")
       ELSE /\ pc' = "chunk_write"
            /\ UNCHANGED <<fs, index, results, cp>>
    /\ UNCHANGED <<cancel_requested, call, returned, watch, nonBatch>>

\* chunk = fsrc.read(chunk_size); if not chunk: break; fdst.write(chunk);
\* fail: the write raises
ChunkWrite(fail) ==
    /\ pc = "chunk_write"
    /\ LET chunk == read(fs, cp.src, cp.pos) IN
       IF chunk = <<>>
       THEN \* the copy is complete
            /\ watch' = [watch EXCEPT !.copy = [fin |-> TRUE, src0 |-> cp.src0,
                                                dst |-> fs[cp.dst].data, count |-> cp.copied]]
            /\ IF call.op = "copyFile"
               THEN /\ pc' = "done"
                    /\ returned' = "True"
                    /\ UNCHANGED <<fs, index, results, cp>>
               ELSE IF cp.dir_src # NoPath
               THEN /\ pc' = "dir_item"
                    /\ UNCHANGED <<fs, index, results, cp, returned>>
               ELSE /\ NextItem(fs, "success")
                    /\ UNCHANGED returned
       ELSE IF fail
       THEN /\ watch' = watch
            /\ IF call.op = "copyFile"
               THEN \* except: remove the partial copy, raise
                    /\ fs' = IF exists(fs, cp.dst) THEN remove(fs, cp.dst) ELSE fs
                    /\ pc' = "done"
                    /\ returned' = "Exception"
                    /\ UNCHANGED <<index, results, cp>>
               ELSE /\ NextItem(fs, "failed")
                    /\ UNCHANGED returned
       ELSE /\ fs' = write(fs, cp.dst, chunk)
            /\ cp' = [cp EXCEPT !.pos = @ + Len(chunk), !.copied = @ + Len(chunk)]
            /\ pc' = IF call.cls = "BO" THEN "chunk_check" ELSE "chunk_write"
            /\ watch' = IF watch.cancel_called /\ watch.chunks_after < 2
                        THEN [watch EXCEPT !.chunks_after = @ + 1] ELSE watch
            /\ UNCHANGED <<index, results, returned>>
    /\ UNCHANGED <<cancel_requested, call, nonBatch>>

\* BatchOperations.batch_delete, one item: removed, or for a secure delete of a
\* regular file _secure_delete_file up to its first pass; fail: open / remove raises
BODeleteItem(cb_cancel, fail) ==
    /\ CanStart
    /\ call.cls = "BO"
    /\ call.op = "batch_delete"
    /\ LET path == call.paths[index]
           w == NoteStart(watch)
       IN
       IF ~exists(fs, path)
       THEN NextItem(fs, "failed") /\ Callback(FALSE, cb_cancel, w)
       ELSE IF call.secure /\ isfile(fs, path)
       THEN /\ Callback(TRUE, cb_cancel, w)
            /\ IF fail
               THEN NextItem(fs, "failed")
               ELSE /\ fs' = open_wb(fs, path)
                    /\ cp' = [NoCopy EXCEPT !.src = path, !.size = Len(fs[path].data)]
                    /\ pc' = "pass"
                    /\ UNCHANGED <<index, results>>
       ELSE IF fail
       THEN NextItem(fs, "failed") /\ Callback(TRUE, cb_cancel, w)
       ELSE /\ NextItem(remove(fs, path), "success")
            /\ Callback(TRUE, cb_cancel,
                        [w EXCEPT !.removed = IF call.secure
                                              THEN @ \cup Removed(fs, path) ELSE @])
    /\ UNCHANGED <<call, returned, nonBatch>>

\* _secure_delete_file: self._check_cancel() and one pass of random bytes; after
\* the last pass os.remove(filepath); fail: the write or the remove raises
PassStep(fail) ==
    /\ pc = "pass"
    /\ IF cp.pass = call.passes
       THEN IF fail
            THEN NextItem(fs, "failed") /\ watch' = watch
            ELSE /\ NextItem(remove(fs, cp.src), "success")
                 /\ watch' = [watch EXCEPT !.removed = @ \cup Removed(fs, cp.src)]
       ELSE /\ watch' = watch
            /\ IF cancel_requested \/ fail
               THEN NextItem(fs, "failed")
               ELSE /\ fs' = overwrite_pass(fs, cp.src, cp.size)
                    /\ cp' = [cp EXCEPT !.pass = @ + 1]
                    /\ UNCHANGED <<index, results, pc>>
    /\ UNCHANGED <<cancel_requested, call, returned, nonBatch>>

\* SmartDirectoryManager.copyFile(src, dst, overwrite) up to its first chunk;
\* fail: open(dst, 'wb') raises
CopyFileEnter(src, dst, overwrite, fail) ==
    /\ pc = "idle"
    /\ call' = Call("SDM", "copyFile", <<src>>, <<>>, dst, overwrite, FALSE, 0)
    /\ index' = 1
    /\ results' = NewResults(0)
    /\ watch' = Watching(fs)
    /\ IF exists(fs, dst) /\ ~overwrite
       THEN /\ pc' = "done"
            /\ returned' = "False"
            /\ UNCHANGED <<fs, cp>>
       ELSE IF ~isfile(fs, src)
       THEN \* os.path.getsize(src) raises, before the try
            /\ pc' = "done"
            /\ returned' = "Exception"
            /\ UNCHANGED <<fs, cp>>
       ELSE IF fail \/ isdir(fs, dst)
       THEN \* except: remove dst if it can be removed, raise
            /\ fs' = IF isfile(fs, dst) THEN remove(fs, dst) ELSE fs
            /\ pc' = "done"
            /\ returned' = "Exception"
            /\ cp' = cp
       ELSE /\ fs' = open_wb(fs, dst)
            /\ cp' = Copying(src, dst, fs[src].data, NoPath, NoPath, <<>>)
            /\ pc' = "chunk_write"
            /\ returned' = "nothing"
    /\ UNCHANGED <<cancel_requested, nonBatch>>

\* the part of path q below the directory p (os.path.relpath)
relpath(q, p) == SubSeq(q, Len(p) + 1, Len(q))

\* SmartDirectoryManager.getFileList: relative path -> size of the files under p
getFileList(f, p) ==
    [r \in {relpath(q, p) : q \in FilesUnder(f, p)} |-> Len(f[p \o r].data)]

\* SmartDirectoryManager.comparePaths(path1, path2): files by size and checksum,
\* directories by the names and sizes of the files in them
comparePaths(f, path1, path2) ==
    IF ~(exists(f, path1) /\ exists(f, path2)) THEN FALSE
    ELSE IF isfile(f, path1) # isfile(f, path2) THEN FALSE
    ELSE IF isfile(f, path1) THEN f[path1].data = f[path2].data
    ELSE getFileList(f, path1) = getFileList(f, path2)

\* os.rename(src, dst) succeeds: the source exists, the parent of dst is a
\* directory, and dst is absent, or a file when src is a file, or an empty
\* directory when src is a directory (it is replaced)
rename_ok(f, src, dst) ==
    /\ exists(f, src)
    /\ isdir(f, dirname(dst))
    /\ \/ ~exists(f, dst)
       \/ isfile(f, src) /\ isfile(f, dst)
       \/ isdir(f, src) /\ isdir(f, dst) /\ listdir(f, dst) = <<>>

\* SmartDirectoryManager.copyDirectory, all of it: the destination directories
\* are made, a file that exists at the destination is skipped unless overwrite
copyDirectory(f, src, dst, overwrite) ==
    [q \in FsPaths |->
        IF IsUnder(dst, q) /\ Relocated(src, dst, q) \in FsPaths
                           /\ exists(f, Relocated(src, dst, q))
        THEN IF isdir(f, Relocated(src, dst, q))
             THEN (IF exists(f, q) THEN f[q] ELSE DirNode)
             ELSE (IF exists(f, q) /\ ~overwrite THEN f[q]
                   ELSE FileNode(f[Relocated(src, dst, q)].data, 0))
        ELSE f[q]]

\* SmartDirectoryManager.smartCopy as smartMove calls it (verify=True), run to
\* its end; its return value is not looked at. raised: it raised.
SmartCopied(f, raised) == [fs |-> f, raised |-> raised]
smartCopy(f, src, dst, overwrite, fail) ==
    IF ~exists(f, src) THEN SmartCopied(f, TRUE)
    ELSE IF isdir(f, src)
    THEN IF isfile(f, dst) \/ fail THEN SmartCopied(f, TRUE)
         ELSE SmartCopied(copyDirectory(f, src, dst, overwrite), FALSE)
    ELSE IF exists(f, dst) /\ ~overwrite THEN SmartCopied(f, FALSE)
    ELSE IF isdir(f, dst) THEN SmartCopied(f, TRUE)
    ELSE IF fail THEN SmartCopied(remove(makedirs(f, dirname(dst)), dst), TRUE)
    ELSE SmartCopied([makedirs(f, dirname(dst)) EXCEPT ![dst] = FileNode(f[src].data, 0)],
                     FALSE)

\* SmartDirectoryManager.smartMove; xdev: src and dst lie on different
\* filesystems, so that os.rename raises OSError
Moved(f, ret, via, verified) == [fs |-> f, ret |-> ret, via |-> via, verified |-> verified]
smartMove(f, src, dst, overwrite, xdev, fail) ==
    IF ~xdev /\ rename_ok(f, src, dst)
    THEN Moved(IF src = dst THEN f ELSE rename(remove(f, dst), src, dst), "True", "rename", FALSE)
    ELSE LET c == smartCopy(f, src, dst, overwrite, fail) IN
         IF c.raised THEN Moved(c.fs, "Exception", "copy", FALSE)
         ELSE IF comparePaths(c.fs, src, dst)
         THEN Moved(remove(c.fs, src), "True", "copy", TRUE)
         ELSE Moved(IF exists(c.fs, dst) THEN remove(c.fs, dst) ELSE c.fs,
                    "False", "copy", FALSE)

\* a call of SmartDirectoryManager.smartMove, from its entry to its return
SmartMove(src, dst, overwrite, xdev, fail) ==
    /\ pc = "idle"
    /\ xdev \/ ~fail
    /\ call' = Call("SDM", "smartMove", <<src>>, <<>>, dst, overwrite, FALSE, 0)
    /\ LET o == smartMove(fs, src, dst, overwrite, xdev, fail) IN
        /\ fs' = o.fs
        /\ returned' = o.ret
        /\ watch' = [Watching(fs) EXCEPT !.via = o.via, !.verified = o.verified]
    /\ pc' = "done"
    /\ index' = 1
    /\ results' = NewResults(0)
    /\ cp' = NoCopy
    /\ UNCHANGED <<cancel_requested, nonBatch>>

\* ---- batch_chmod

\* the dirs + files that os.walk(p) yields, top-down, each directory's
\* sub-directories before its files
RECURSIVE walk(_, _), walk_below(_, _, _)
walk(f, p) ==
    LET names == listdir(f, p)
        dirs == SelectSeq(names, LAMBDA n : isdir(f, join(p, n)))
        files == SelectSeq(names, LAMBDA n : ~isdir(f, join(p, n)))
        items == dirs \o files
    IN  [k \in 1..Len(items) |-> join(p, items[k])] \o walk_below(f, p, dirs)
walk_below(f, p, dirs) ==
    IF dirs = <<>> THEN <<>>
    ELSE walk(f, join(p, Head(dirs))) \o walk_below(f, p, Tail(dirs))

\* the sets of paths inside an input directory on which os.chmod raises
DeniedSets == {{}, {<<"s", "d", "x">>}}

\* what the loop body of batch_chmod did with one path: what it appended to
\* success and to failed, whether the progress callback was reached, and the
\* paths whose mode it set
Chmodded(success, failed, cb, changed) ==
    [success |-> success, failed |-> failed, cb |-> cb, changed |-> changed]

\* BatchOperations._chmod_recursive: errors on individual items are ignored
chmod_recursive(f, p, denied) ==
    {q \in FsPaths : \E k \in 1..Len(walk(f, p)) : walk(f, p)[k] = q} \ denied

\* the loop body of BatchOperations.batch_chmod; fail: os.chmod(path_str, mode)
\* raises
bo_chmod_item(f, p, recursive, fail, denied) ==
    IF ~exists(f, p) THEN Chmodded(<<>>, <<p>>, FALSE, {})
    ELSE IF fail THEN Chmodded(<<>>, <<p>>, TRUE, {})
    ELSE Chmodded(<<p>>, <<>>, TRUE,
                  {p} \cup IF recursive /\ isdir(f, p)
                           THEN chmod_recursive(f, p, denied) ELSE {})

\* the loop body of SmartDirectoryManager.batch_chmod: every item of the walk
\* on which os.chmod raises is appended to failed
sdm_chmod_item(f, p, recursive, fail, denied) ==
    IF ~exists(f, p) \/ fail THEN Chmodded(<<>>, <<p>>, FALSE, {})
    ELSE IF recursive /\ isdir(f, p)
         THEN Chmodded(<<p>>, SelectSeq(walk(f, p), LAMBDA q : q \in denied), FALSE,
                       {p} \cup chmod_recursive(f, p, denied))
         ELSE Chmodded(<<p>>, <<>>, FALSE, {p})

chmod_item(cls, f, p, recursive, fail, denied) ==
    IF cls = "BO" THEN bo_chmod_item(f, p, recursive, fail, denied)
    ELSE sdm_chmod_item(f, p, recursive, fail, denied)

\* batch_chmod, one path
ChmodItem(cb_cancel, fail, denied) ==
    /\ CanStart
    /\ call.op = "batch_chmod"
    /\ LET out == chmod_item(call.cls, fs, call.paths[index], call.recursive, fail, denied)
       IN  /\ results' = [results EXCEPT !.success = @ \o out.success,
                                         !.failed = @ \o out.failed]
           /\ Callback(out.cb, cb_cancel,
                       [NoteStart(watch) EXCEPT !.chmod = @ \cup out.changed])
    /\ index' = index + 1
    /\ UNCHANGED <<fs, pc, cp, call, returned, nonBatch>>

BatchNext ==
    \/ \E data \in FileDatas, t \in {"absent", "empty", "full"} : Populate(data, t)
    \/ RequestCancel
    \/ \E c \in BatchCalls : BatchEnter(c)
    \/ \E mk_fails \in BOOLEAN : Prepare(mk_fails)
    \/ LoopReturn
    \/ LoopCancelled
    \/ \E cb_cancel, fail \in BOOLEAN : MoveItem(cb_cancel, fail)
    \/ \E cb_cancel, fail \in BOOLEAN : RenameItem(cb_cancel, fail)
    \/ \E fail \in BOOLEAN : SDMCopyItem(fail)
    \/ \E fail_ow, fail \in BOOLEAN : SDMDeleteItem(fail_ow, fail)
    \/ \E cb_cancel, fail \in BOOLEAN : BOCopyItem(cb_cancel, fail)
    \/ \E fail \in BOOLEAN : DirItem(fail)
    \/ ChunkCheck
    \/ \E fail \in BOOLEAN : ChunkWrite(fail)
    \/ \E cb_cancel, fail \in BOOLEAN : BODeleteItem(cb_cancel, fail)
    \/ \E fail \in BOOLEAN : PassStep(fail)
    \/ \E src, dst \in {A, TA}, overwrite, fail \in BOOLEAN : CopyFileEnter(src, dst, overwrite, fail)
    \/ \E src \in {A, D, M}, dst \in {TA, TD}, overwrite, xdev, fail \in BOOLEAN :
            SmartMove(src, dst, overwrite, xdev, fail)
    \/ \E cb_cancel, fail \in BOOLEAN, denied \in DeniedSets :
            ChmodItem(cb_cancel, fail, denied)

(***************************************************************************)
(*     WestyFileTransferJob, WestyFileTransferTask and transfer threads    *)
(***************************************************************************)

\* The model's bound: how many tasks a job creates in one behaviour.
MaxTasks == 2
TaskIds == 1..MaxTasks

DX == <<"s", "d", "x">>
\* /s holds the file a and the directory d with its file x, both files a chunk
\* and a half long; /t does not exist yet
TransferFs ==
    [q \in FsPaths |->
        IF q = S \/ q = D THEN DirNode
        ELSE IF q = A THEN FileNode(<<1, 2, 3>>, 0)
        ELSE IF q = DX THEN FileNode(<<4, 5, 6>>, 0)
        ELSE Absent]

\* os.path.getsize
getsize(f, p) == IF p \in FsPaths THEN Len(f[p].data) ELSE 0

\* a queue item (status, message and callback are not modelled)
NoItem == [src |-> NoPath, dst |-> NoPath, operation |-> "none", is_dir |-> FALSE]
QueueItem(f, src, dst, operation) ==
    [src |-> src, dst |-> dst, operation |-> operation,
     is_dir |-> IF exists(f, src) THEN isdir(f, src) ELSE FALSE]

\* WestyFileTransferTask.__init__; the fields below the line are the thread's
\* position and locals, what the framework has done with the task, and
\* observations for the properties
NewTask(src, dst, src_isDir, do_copy) ==
    [src_file |-> src, dst_file |-> dst, src_isDir |-> src_isDir, do_copy |-> do_copy,
     copied_size |-> 0, error |-> FALSE, completed |-> FALSE, cancelled |-> FALSE,
     timer |-> FALSE,
     \* ----
     thread |-> "none", tpc |-> "none", pos |-> 0, todo |-> <<>>, errs |-> FALSE,
     prepared |-> FALSE, after_run |-> FALSE, cancel_pc |-> "no",
     late_writes |-> 0, alive_at_return |-> FALSE, left_partial |-> FALSE]

\* WestyFileTransferJob.__init__ without src_file / dst_file: queue mode
NewJob ==
    [transfer_queue |-> <<>>, current_transfer |-> NoItem, queue_running |-> FALSE,
     is_queue_mode |-> TRUE, tasks |-> <<>>]

\* only a completion reported to the job is kept as the last event, with the
\* queue item it removed (whose callback it invoked), if it did
NoEvent == [op |-> "none", task |-> 0, success |-> FALSE, popped |-> NoItem]
Event(op, t, success) ==
    [op |-> op, task |-> t, success |-> success, popped |-> NoItem]

\* WestyFileTransferJob._process_next_in_queue
process_next_in_queue(j) ==
    IF j.transfer_queue = <<>> \/ ~j.queue_running
    THEN [j EXCEPT !.queue_running = FALSE]
    ELSE LET item == Head(j.transfer_queue) IN
         [j EXCEPT !.current_transfer = item,
                   !.tasks = Append(@, NewTask(item.src, item.dst, item.is_dir,
                                               item.operation = "copy"))]

\* WestyFileTransferJob.start_queue
start_queue(j) ==
    IF j.transfer_queue = <<>> THEN j
    ELSE process_next_in_queue([j EXCEPT !.queue_running = TRUE, !.is_queue_mode = TRUE])

\* WestyFileTransferJob.clear_queue
clear_queue(j) ==
    [j EXCEPT !.transfer_queue = <<>>, !.current_transfer = NoItem, !.queue_running = FALSE]

\* the loop of batch_copy_files / batch_move_files: every source that exists is
\* queued with its name under dest_dir
RECURSIVE AddExisting(_, _, _, _, _, _)
AddExisting(j, f, file_list, k, dest_dir, operation) ==
    IF k > Len(file_list) THEN j
    ELSE LET src == file_list[k]
             j1 == IF exists(f, src)
                   THEN [j EXCEPT !.transfer_queue =
                            Append(@, QueueItem(f, src, join(dest_dir, basename(src)), operation))]
                   ELSE j
         IN  AddExisting(j1, f, file_list, k + 1, dest_dir, operation)

\* WestyFileTransferJob.batch_copy_files / batch_move_files
batch_files(j, f, file_list, dest_dir, operation) ==
    start_queue(AddExisting(clear_queue(j), f, file_list, 1, dest_dir, operation))

\* WestyFileTransferJob.on_transfer_complete
on_transfer_complete(j) ==
    IF j.is_queue_mode /\ j.current_transfer # NoItem
    THEN LET item == j.current_transfer
             j1 == IF j.transfer_queue # <<>> /\ Head(j.transfer_queue) = item
                   THEN [j EXCEPT !.transfer_queue = Tail(@)]
                   ELSE j
         IN  IF j1.queue_running THEN process_next_in_queue(j1) ELSE j1
    ELSE j

\* the item that on_transfer_complete pops, and whose callback it invokes
popped_item(j) ==
    IF /\ j.is_queue_mode /\ j.current_transfer # NoItem
       /\ j.transfer_queue # <<>> /\ Head(j.transfer_queue) = j.current_transfer
    THEN Head(j.transfer_queue)
    ELSE NoItem

\* WestyFileTransferTask.verifyTransfer
verifyTransfer(f, task) ==
    IF ~exists(f, task.dst_file) THEN FALSE
    ELSE IF task.src_isDir THEN TRUE
    ELSE IF exists(f, task.src_file)
    THEN getsize(f, task.src_file) = getsize(f, task.dst_file)
    ELSE FALSE

\* the cleanup of _transferFile's except branch: os.remove(dst) if dst exists,
\* any failure of it swallowed
cleanup_partial(f, dst) == IF isfile(f, dst) THEN remove(f, dst) ELSE f

\* fdst.write(chunk) through an open handle: a file that was unlinked meanwhile
\* does not come back under its path
write_open(f, p, chunk) == IF isfile(f, p) THEN write(f, p, chunk) ELSE f

Tasks == 1..Len(job.tasks)
Alive(t) == job.tasks[t].thread = "alive"
TaskBecomes(t, task) == job' = [job EXCEPT !.tasks[t] = task]
\* the thread of task t ends; _performTransfer has set completed and error
ThreadEnds(task, completed, error) ==
    [task EXCEPT !.thread = "dead", !.tpc = "none", !.completed = completed,
                 !.error = error]
\* the bytes of a source: of the file, or of the files of the directory
SourceSize(src) ==
    IF src = D THEN getsize(TransferFs, DX) ELSE getsize(TransferFs, src)
\* the task has copied all of its source: every byte of the file or of the
\* directory's files, or the directory was moved
FinishedCopying(task) ==
    IF task.src_isDir /\ ~task.do_copy
    THEN task.thread = "dead" /\ task.completed
    ELSE task.copied_size = SourceSize(task.src_file)
Late(task) == IF task.cancelled /\ task.late_writes < 2 THEN task.late_writes + 1
              ELSE task.late_writes

TransInit ==
    /\ tfs = TransferFs
    /\ job = NewJob
    /\ ui_busy = 0
    /\ t_last = NoEvent

\* ---- calls made on the UI thread

\* batch_copy_files / batch_move_files
BatchFiles(file_list, dest_dir, operation) ==
    /\ ui_busy = 0
    /\ LET j == batch_files(job, tfs, file_list, dest_dir, operation) IN
        /\ Len(j.tasks) <= MaxTasks
        /\ job' = j
    /\ t_last' = NoEvent
    /\ UNCHANGED <<tfs, ui_busy, nonTrans>>

\* WestyFileTransferJob.clear_queue
ClearQueue ==
    /\ ui_busy = 0
    /\ job' = clear_queue(job)
    /\ t_last' = NoEvent
    /\ UNCHANGED <<tfs, ui_busy, nonTrans>>

\* WestyFileTransferJob.stop_queue
StopQueue ==
    /\ ui_busy = 0
    /\ job' = [job EXCEPT !.queue_running = FALSE]
    /\ t_last' = NoEvent
    /\ UNCHANGED <<tfs, ui_busy, nonTrans>>

\* copy_file / move_file: a job is constructed for one transfer of a file
\* (src_isDir=False); nothing is constructed when src does not exist
ConvenienceFile(src, dst, do_copy) ==
    /\ ui_busy = 0
    /\ job = NewJob
    /\ job' = IF exists(tfs, src)
              THEN [NewJob EXCEPT !.is_queue_mode = FALSE,
                                  !.tasks = <<NewTask(src, dst, FALSE, do_copy)>>]
              ELSE job
    /\ t_last' = NoEvent
    /\ UNCHANGED <<tfs, ui_busy, nonTrans>>

\* The task framework runs the job's tasks one after the other: prepare() of a
\* task when afterRun() of every earlier task has been called.
NextToPrepare(t) ==
    /\ t \in Tasks
    /\ ~job.tasks[t].prepared
    /\ \A u \in 1..(t - 1) : job.tasks[u].after_run

\* WestyFileTransferTask.prepare
PrepareTask(t) ==
    /\ ui_busy = 0
    /\ NextToPrepare(t)
    /\ LET task == job.tasks[t]
           dst_dir == dirname(task.dst_file)
       IN
        /\ tfs' = IF dst_dir # <<>> /\ ~exists(tfs, dst_dir) THEN makedirs(tfs, dst_dir) ELSE tfs
        /\ IF ~task.src_isDir /\ ~exists(tfs, task.src_file)
           THEN \* FileNotFoundError: no thread is started
                TaskBecomes(t, [task EXCEPT !.prepared = TRUE, !.error = TRUE])
           ELSE TaskBecomes(t, [task EXCEPT !.prepared = TRUE, !.thread = "alive",
                                            !.tpc = "begin", !.timer = TRUE])
    /\ t_last' = NoEvent
    /\ UNCHANGED <<ui_busy, nonTrans>>

\* WestyFileTransferTask.afterRun: the timer is stopped and the thread joined for
\* at most 5 seconds, so afterRun may return while the thread is alive
AfterRun(t) ==
    /\ ui_busy = 0
    /\ t \in Tasks
    /\ job.tasks[t].prepared
    /\ ~job.tasks[t].after_run
    /\ TaskBecomes(t, [job.tasks[t] EXCEPT !.timer = FALSE, !.after_run = TRUE])
    /\ t_last' = NoEvent
    /\ UNCHANGED <<tfs, ui_busy, nonTrans>>

\* WestyFileTransferTask.updateProgress, fired by the progress timer; on a
\* completed task it goes on through _notifyCompletion to the job's
\* on_transfer_complete
UpdateProgress(t) ==
    /\ ui_busy = 0
    /\ t \in Tasks
    /\ job.tasks[t].timer
    /\ LET task == job.tasks[t] IN
        IF task.cancelled
        THEN /\ TaskBecomes(t, [task EXCEPT !.timer = FALSE])
             /\ t_last' = NoEvent
        ELSE IF task.completed
        THEN LET j == on_transfer_complete([job EXCEPT !.tasks[t].timer = FALSE]) IN
             /\ Len(j.tasks) <= MaxTasks
             /\ job' = j
             /\ t_last' = [Event("on_transfer_complete", t, verifyTransfer(tfs, task))
                              EXCEPT !.popped = popped_item(job)]
        ELSE /\ job' = job
             /\ t_last' = NoEvent
    /\ UNCHANGED <<tfs, ui_busy, nonTrans>>

\* WestyFileTransferTask.cancel, on a task the framework has started, up to the
\* join: the flag is set, the timer is stopped, the UI thread waits for the
\* transfer thread
CancelBegin(t) ==
    /\ ui_busy = 0
    /\ t \in Tasks
    /\ job.tasks[t].prepared
    /\ job.tasks[t].cancel_pc = "no"
    /\ TaskBecomes(t, [job.tasks[t] EXCEPT !.cancelled = TRUE, !.timer = FALSE,
                                           !.cancel_pc = "joining"])
    /\ ui_busy' = t
    /\ t_last' = NoEvent
    /\ UNCHANGED <<tfs, nonTrans>>

\* WestyFileTransferTask.cancel from the join on: join(timeout=2.0) returns when
\* the thread has ended or when the two seconds are over, then what is left at
\* the destination of a task that is not completed is removed
CancelReturn(t) ==
    /\ ui_busy = t
    /\ t \in Tasks
    /\ LET task == job.tasks[t] IN
        /\ tfs' = IF exists(tfs, task.dst_file) /\ ~task.completed
                  THEN (IF task.src_isDir = isdir(tfs, task.dst_file)
                        THEN remove(tfs, task.dst_file) ELSE tfs)
                  ELSE tfs
        /\ TaskBecomes(t, [task EXCEPT !.cancel_pc = "returned",
                                       !.alive_at_return = (task.thread = "alive"),
                                       !.left_partial = (/\ ~FinishedCopying(task)
                                                         /\ exists(tfs', task.dst_file))])
    /\ ui_busy' = 0
    /\ t_last' = NoEvent
    /\ UNCHANGED nonTrans

\* ---- the steps of a transfer thread (_performTransfer)

\* the cancelled test at the head of _performTransfer, then the branch
ThreadBegin(t) ==
    /\ t \in Tasks
    /\ Alive(t)
    /\ job.tasks[t].tpc = "begin"
    /\ LET task == job.tasks[t] IN
        IF task.cancelled
        THEN TaskBecomes(t, ThreadEnds(task, task.completed, task.error))
        ELSE TaskBecomes(t, [task EXCEPT !.tpc = IF ~task.src_isDir THEN "file_open"
                                                 ELSE IF task.do_copy THEN "dir_copy"
                                                 ELSE "dir_move"])
    /\ t_last' = NoEvent
    /\ UNCHANGED <<tfs, ui_busy, nonTrans>>

\* _transferFile: open(src, 'rb'), open(dst, 'wb'); a failure goes through the
\* cleanup to the except branch of _performTransfer
FileOpen(t) ==
    /\ t \in Tasks
    /\ Alive(t)
    /\ job.tasks[t].tpc = "file_open"
    /\ LET task == job.tasks[t] IN
        IF ~isfile(tfs, task.src_file) \/ isdir(tfs, task.dst_file)
                \/ ~isdir(tfs, dirname(task.dst_file))
        THEN /\ tfs' = cleanup_partial(tfs, task.dst_file)
             /\ TaskBecomes(t, ThreadEnds(task, FALSE, TRUE))
        ELSE /\ tfs' = open_wb(tfs, task.dst_file)
             /\ TaskBecomes(t, [task EXCEPT !.tpc = "check", !.pos = 0])
    /\ t_last' = NoEvent
    /\ UNCHANGED <<ui_busy, nonTrans>>

\* _transferFile: if self.cancelled: return; _performTransfer then sets
\* completed
FileCheck(t) ==
    /\ t \in Tasks
    /\ Alive(t)
    /\ job.tasks[t].tpc = "check"
    /\ LET task == job.tasks[t] IN
        IF task.cancelled
        THEN TaskBecomes(t, ThreadEnds(task, TRUE, task.error))
        ELSE TaskBecomes(t, [task EXCEPT !.tpc = "write"])
    /\ t_last' = NoEvent
    /\ UNCHANGED <<tfs, ui_busy, nonTrans>>

\* _transferFile: read a chunk, write it; the empty chunk ends the loop
FileWrite(t, fail) ==
    /\ t \in Tasks
    /\ Alive(t)
    /\ job.tasks[t].tpc = "write"
    /\ LET task == job.tasks[t]
           chunk == read(tfs, task.src_file, task.pos)
       IN
        IF fail
        THEN /\ tfs' = cleanup_partial(tfs, task.dst_file)
             /\ TaskBecomes(t, ThreadEnds(task, FALSE, TRUE))
        ELSE IF chunk = <<>>
        THEN /\ tfs' = tfs
             /\ TaskBecomes(t, ThreadEnds(task, TRUE, task.error))
        ELSE /\ tfs' = write_open(tfs, task.dst_file, chunk)
             /\ TaskBecomes(t, [task EXCEPT !.tpc = "check",
                                            !.pos = @ + Len(chunk),
                                            !.copied_size = @ + Len(chunk),
                                            !.late_writes = Late(task)])
    /\ t_last' = NoEvent
    /\ UNCHANGED <<ui_busy, nonTrans>>

\* _transferDirectory, do_copy: shutil.copytree(..., dirs_exist_ok=True) lists
\* the source and makes the destination directory
DirCopyBegin(t) ==
    /\ t \in Tasks
    /\ Alive(t)
    /\ job.tasks[t].tpc = "dir_copy"
    /\ LET task == job.tasks[t] IN
        IF ~isdir(tfs, task.src_file) \/ isfile(tfs, task.dst_file)
        THEN /\ tfs' = tfs
             /\ TaskBecomes(t, ThreadEnds(task, FALSE, TRUE))
        ELSE /\ tfs' = makedirs(tfs, task.dst_file)
             /\ TaskBecomes(t, [task EXCEPT !.tpc = "dir_file",
                                            !.todo = listdir(tfs, task.src_file)])
    /\ t_last' = NoEvent
    /\ UNCHANGED <<ui_busy, nonTrans>>

\* copytree's loop: _copyFileWithProgress for the next entry. Its
\* InterruptedError is an OSError, which copytree collects and raises when the
\* loop is over.
DirFile(t) ==
    /\ t \in Tasks
    /\ Alive(t)
    /\ job.tasks[t].tpc = "dir_file"
    /\ LET task == job.tasks[t] IN
        IF task.todo = <<>>
        THEN /\ tfs' = tfs
             /\ TaskBecomes(t, ThreadEnds(task, ~task.errs, task.errs \/ task.error))
        ELSE IF task.cancelled \/ ~isfile(tfs, join(task.src_file, Head(task.todo)))
        THEN /\ tfs' = tfs
             /\ TaskBecomes(t, [task EXCEPT !.todo = Tail(@), !.errs = TRUE])
        ELSE /\ tfs' = open_wb(tfs, join(task.dst_file, Head(task.todo)))
             /\ TaskBecomes(t, [task EXCEPT !.tpc = "dir_write", !.pos = 0])
    /\ t_last' = NoEvent
    /\ UNCHANGED <<ui_busy, nonTrans>>

\* _copyFileWithProgress: the chunk loop, which does not look at cancelled
DirWrite(t) ==
    /\ t \in Tasks
    /\ Alive(t)
    /\ job.tasks[t].tpc = "dir_write"
    /\ LET task == job.tasks[t]
           name == Head(task.todo)
           chunk == read(tfs, join(task.src_file, name), task.pos)
       IN
        IF chunk = <<>>
        THEN /\ tfs' = tfs
             /\ TaskBecomes(t, [task EXCEPT !.tpc = "dir_file", !.todo = Tail(@)])
        ELSE /\ tfs' = write_open(tfs, join(task.dst_file, name), chunk)
             /\ TaskBecomes(t, [task EXCEPT !.pos = @ + Len(chunk),
                                            !.copied_size = @ + Len(chunk),
                                            !.late_writes = Late(task)])
    /\ t_last' = NoEvent
    /\ UNCHANGED <<ui_busy, nonTrans>>

\* _transferDirectory, not do_copy: shutil.move(src, dst), which moves into dst
\* when dst is a directory
DirMove(t) ==
    /\ t \in Tasks
    /\ Alive(t)
    /\ job.tasks[t].tpc = "dir_move"
    /\ LET task == job.tasks[t]
           real_dst == IF isdir(tfs, task.dst_file)
                       THEN join(task.dst_file, basename(task.src_file))
                       ELSE task.dst_file
       IN
        IF ~exists(tfs, task.src_file) \/ exists(tfs, real_dst)
        THEN /\ tfs' = tfs
             /\ TaskBecomes(t, ThreadEnds(task, FALSE, TRUE))
        ELSE /\ tfs' = rename(tfs, task.src_file, real_dst)
             /\ TaskBecomes(t, [ThreadEnds(task, TRUE, task.error)
                                    EXCEPT !.late_writes = Late(task)])
    /\ t_last' = NoEvent
    /\ UNCHANGED <<ui_busy, nonTrans>>

TransferLists == {<<A>>, <<D>>, <<A, D>>}

TransNext ==
    \/ \E l \in TransferLists, op \in {"copy", "move"} : BatchFiles(l, T, op)
    \/ ClearQueue
    \/ StopQueue
    \/ \E do_copy \in BOOLEAN : ConvenienceFile(A, TA, do_copy)
    \/ \E t \in TaskIds : PrepareTask(t)
    \/ \E t \in TaskIds : AfterRun(t)
    \/ \E t \in TaskIds : UpdateProgress(t)
    \/ \E t \in TaskIds : CancelBegin(t)
    \/ \E t \in TaskIds : CancelReturn(t)
    \/ \E t \in TaskIds : ThreadBegin(t)
    \/ \E t \in TaskIds : FileOpen(t)
    \/ \E t \in TaskIds : FileCheck(t)
    \/ \E t \in TaskIds, fail \in BOOLEAN : FileWrite(t, fail)
    \/ \E t \in TaskIds : DirCopyBegin(t)
    \/ \E t \in TaskIds : DirFile(t)
    \/ \E t \in TaskIds : DirWrite(t)
    \/ \E t \in TaskIds : DirMove(t)

vars == <<selVars, cacheVars, batchVars, transVars>>

\* every object as its constructor leaves it
Init ==
    /\ SelInit
    /\ CacheInit
    /\ BatchInit
    /\ TransInit

SelSpec == Init /\ [][SelNext]_vars

CacheSpec == Init /\ [][CacheNext]_vars

BatchSpec == Init /\ [][BatchNext]_vars

TransSpec == Init /\ [][TransNext]_vars

\* SelectionManager.get_total_size
get_total_size == total_size

RECURSIVE SumSizes(_, _)
SumSizes(items, keys) ==
    IF keys = {} THEN 0
    ELSE LET k == CHOOSE x \in keys : TRUE IN SizeOf(items[k]) + SumSizes(items, keys \ {k})

\* C1: after any sequence of SelectionManager calls, get_total_size() is the sum
\* of the 'size' fields (0 when absent) of exactly the entries in selected_items.
C1_TotalIsSumOfSelected ==
    get_total_size = SumSizes(selected_items, DOMAIN selected_items)

\* C1 witness: a deselect_item call has just removed an entry, and an entry with
\* a size is still selected.
C1_Witness ==
    /\ sel_op = "deselect_item"
    /\ sel_ret = RetBool(TRUE)
    /\ \E k \in DOMAIN selected_items : SizeOf(selected_items[k]) > 0
    /\ total_size > 0

\* what clear_selection(p) may change: the entries keyed by pane p go, every
\* other entry, current_pane and the key states stay, the total drops by the
\* sizes of the entries that went
C11_Frame(p) ==
    LET gone == {k \in DOMAIN selected_items : k[1] = p} IN
    /\ DOMAIN selected_items' = DOMAIN selected_items \ gone
    /\ \A k \in DOMAIN selected_items' : selected_items'[k] = selected_items[k]
    /\ current_pane' = current_pane
    /\ keys_held' = keys_held
    /\ total_size' = total_size - SumSizes(selected_items, gone)

\* C11: clear_selection(p) removes exactly the entries keyed by pane p and leaves
\* every other pane's entries, current_pane and the key states unchanged; the
\* total drops by the sum of the removed entries' sizes. The same path selected
\* in two panes is two independent entries.
C11_ClearSelectionFrame ==
    [][\A p \in Panes : ClearSelection(p) => C11_Frame(p)]_vars

\* C11 witness: clear_selection(p) has just removed an entry of pane p whose
\* path is still selected in the other pane, while a key is held.
C11_Witness ==
    /\ sel_op = "clear_selection"
    /\ sel_last.pane \in Panes
    /\ \E k \in sel_last.removed :
          \E q \in Panes \ {k[1]} :
              /\ k[1] = sel_last.pane
              /\ <<q, k[2]>> \in DOMAIN selected_items
              /\ SizeOf(selected_items[<<q, k[2]>>]) > 0
    /\ keys_held # EmptyInfo
    /\ total_size > 0

\* C12: select_item on an already selected (pane, path) and deselect_item on a
\* (pane, path) that is not selected both return False and leave selected_items
\* and total_size unchanged.
C12_RedundantCallsChangeNothing ==
    [][/\ sel_op' = "select_item" =>
          \A path \in SelPaths, info \in Infos, p \in Panes \cup {None} :
            (/\ SelectItem(path, info, p)
             /\ is_selected(selected_items, path, PaneOrCurrent(p)))
            => (sel_ret' = RetBool(FALSE) /\ UNCHANGED <<selected_items, total_size>>)
       /\ sel_op' = "deselect_item" =>
          \A path \in SelPaths, p \in Panes \cup {None} :
            (/\ DeselectItem(path, p)
             /\ ~is_selected(selected_items, path, PaneOrCurrent(p)))
            => (sel_ret' = RetBool(FALSE) /\ UNCHANGED <<selected_items, total_size>>)
      ]_vars

\* C12 witness: select_item has just returned False while entries with sizes
\* are selected.
C12_Witness ==
    /\ sel_op = "select_item"
    /\ sel_ret = RetBool(FALSE)
    /\ selected_items # EmptyInfo
    /\ total_size > 0

\* C2: when the directory a pane shows changes, every selection entry keyed by
\* that pane is removed from the SelectionManager.
C2_DirChangeClearsPane ==
    [][\A p \in Panes :
          current_directory'[p] # current_directory[p]
              => \A k \in DOMAIN selected_items' : k[1] # p]_vars


\* C8: after every completed FileInfoCache.get or ImageCache.get_icon call the
\* cache holds at most its current max_size entries, whatever calls came before,
\* the reassignment of max_size by WestyFileList.__init__ included.
C8_SizeWithinMaxAfterGet ==
    /\ (cache_op.op = "get" /\ cache_op.outcome # "raised") => Len(cache) <= max_size
    /\ cache_op.op = "get_icon" => Len(icache) <= ImageMaxSize

\* C9: a get miss that inserts a path into a full cache evicts exactly one entry,
\* the one accessed by get longest ago; a hit makes the hit entry the most
\* recently used.
C9_FullMissEvictsLRU ==
    cache_op.op = "get" =>
        /\ (cache_op.outcome \in {"miss", "expired"} /\ cache_op.was_full)
              => cache_op.removed = {cache_op.oldest}
        /\ cache_op.outcome = "hit" => cache[Len(cache)].key = cache_op.key

\* C9, amended: a get miss that inserts a path while the cache holds max_size or
\* more entries of other paths evicts exactly one of them, the one accessed by get
\* longest ago; while it holds fewer, it evicts none of them (an expired entry of
\* the path itself is replaced, which frees its place); a hit makes the hit entry
\* the most recently used and evicts nothing.
C9_MissEvictsLRUOfOthers ==
    cache_op.op = "get" =>
        /\ cache_op.outcome \in {"miss", "expired"}
              => cache_op.removed \ {cache_op.key} =
                    IF cache_op.others_full THEN {cache_op.oldest_other} ELSE {}
        /\ cache_op.outcome = "hit"
              => cache[Len(cache)].key = cache_op.key /\ cache_op.removed = {}

\* at time 1 a miss on a full cache of two entries evicts the one accessed longest ago
C9_Witness ==
    /\ cache_op.op = "get"
    /\ cache_op.outcome = "miss"
    /\ cache_op.others_full
    /\ cache_op.removed = {cache_op.oldest_other}
    /\ Len(cache) = 2
    /\ cache[1].ts < cache[2].ts
    /\ cache[1].ts = 0 /\ now = 1

\* C10: get never returns a stored value inserted ttl or more ago: it removes the
\* entry, calls getter_func and stores what it gives with the current time; a
\* younger entry is returned as stored, without a call of getter_func.
C10_TTL ==
    (cache_op.op = "get" /\ cache_op.old # NoEntry) =>
        IF now - cache_op.old.ts >= TTL
        THEN /\ cache_op.getter_called
             /\ cache_op.outcome \in {"expired", "raised"}
             /\ cache_op.outcome = "expired" =>
                    /\ cache_op.ret = cache_op.fresh
                    /\ cache_op.key \in KeysOf(cache)
                    /\ EntryOf(cache, cache_op.key) = Entry(cache_op.key, cache_op.fresh, now)
             /\ cache_op.outcome = "raised" => cache_op.key \notin KeysOf(cache)
        ELSE /\ ~cache_op.getter_called
             /\ cache_op.outcome = "hit"
             /\ cache_op.ret = cache_op.old.info
             /\ EntryOf(cache, cache_op.key) = cache_op.old

\* an entry exactly ttl old is refreshed with a value that differs from the stored one
C10_Witness ==
    /\ cache_op.op = "get"
    /\ cache_op.outcome = "expired"
    /\ now - cache_op.old.ts = TTL
    /\ cache_op.ret # cache_op.old.info

\* the number of times p stands in seq
Count(seq, p) == Cardinality({k \in 1..Len(seq) : seq[k] = p})
BatchMethods == {"batch_copy", "batch_move", "batch_delete", "batch_rename"}
ReturnedResults == pc = "done" /\ returned = "results" /\ call.op \in BatchMethods
EachPathInOneBucket ==
    /\ \A p \in FsPaths :
          Count(results.success, p) + Count(results.failed, p) + Count(results.skipped, p)
             = Count(call.paths, p)
    /\ Len(results.success) + Len(results.failed) + Len(results.skipped) = results.total

\* C3: whenever batch_copy, batch_move, batch_delete or batch_rename of either
\* class returns a results dictionary, every input path is in exactly one of the
\* buckets success / failed / skipped, so their lengths add up to total.
C3_EveryPathInOneBucket == ReturnedResults => EachPathInOneBucket

\* C3, amended: the same for every returned dictionary that carries no 'error'
\* key; the one that batch_copy / batch_move return when the destination
\* directory cannot be created carries it, with total = len(paths) and all three
\* buckets empty.
C3_EveryPathInOneBucketUnlessError ==
    ReturnedResults =>
        IF results.error
        THEN /\ results.total = Len(call.paths)
             /\ results.success = <<>> /\ results.failed = <<>> /\ results.skipped = <<>>
        ELSE EachPathInOneBucket

\* a list of two came back with one path failed and the other skipped
C3_Witness ==
    /\ ReturnedResults
    /\ ~results.error
    /\ results.total = 2
    /\ Len(results.failed) = 1
    /\ Len(results.skipped) = 1

\* C4: no batch method of BatchOperations lets an exception escape: a failing
\* item and a cancellation both end in a returned results dictionary.
C4_NoExceptionEscapes ==
    (call.cls = "BO" /\ pc = "done") => returned = "results"

\* C5: once request_cancel() has been called after the entry of a BatchOperations
\* batch method, the method starts on no later item of its list, and a running
\* chunked copy writes no chunk after the one in flight.
C5_CancelStopsLaterWork ==
    watch.cancel_called => (~watch.late_op /\ watch.chunks_after <= 1)

\* C6: every regular file that a batch_delete with secure=True removes, passed
\* directly or inside a passed directory, has been overwritten over its full
\* length in each of the N passes before.
C6_RemovedFilesWereOverwritten ==
    (call.op = "batch_delete" /\ call.secure) =>
        \A r \in watch.removed : r.ow >= call.passes

\* C7: a chunked file copy that finishes without error or cancellation leaves
\* the destination with exactly the bytes the source had, and has counted as
\* many bytes as the source was long.
C7_CopyIsExact ==
    watch.copy.fin =>
        /\ watch.copy.dst = watch.copy.src0
        /\ watch.copy.count = Len(watch.copy.src0)

\* C13: at every moment at most one background transfer thread is alive per
\* WestyFileTransferJob; the thread of the next task is not started before the
\* thread of the previous one has ended.
C13_OneThreadPerJob ==
    Cardinality({t \in Tasks : Alive(t)}) <= 1

\* C14: once cancel() has set the cancelled flag, the transfer thread writes at
\* most the chunk in flight to the destination, whatever the kind of transfer,
\* and it has ended when cancel() returns.
C14_CancelStopsThread ==
    \A t \in Tasks :
        /\ job.tasks[t].late_writes <= 1
        /\ ~job.tasks[t].alive_at_return

\* C15: when a transfer created with do_copy=False has completed successfully,
\* the source path no longer exists and the destination holds its content.
C15_MoveRemovesSource ==
    (/\ t_last.op = "on_transfer_complete"
     /\ t_last.success
     /\ ~job.tasks[t_last.task].do_copy)
    => LET task == job.tasks[t_last.task] IN
       /\ ~exists(tfs, task.src_file)
       /\ exists(tfs, task.dst_file)
       /\ task.src_isDir \/ tfs[task.dst_file].data = TransferFs[task.src_file].data

\* the destination path of every item of the call
DestsOf(c) ==
    IF c.op \in {"batch_copy", "batch_move"}
    THEN {join(c.dest, basename(c.paths[k])) : k \in 1..Len(c.paths)}
    ELSE IF c.op \in {"copyFile", "smartMove"} THEN {c.dest}
    ELSE {}
\* path d and everything under it is as the call found it
Untouched(d) == \A q \in FsPaths : IsUnder(d, q) => fs[q] = watch.fs0[q]

\* C16: with overwrite=False, batch_copy, batch_move, copyFile and smartMove
\* never replace, modify or remove a file or directory that existed at an
\* item's destination when the call began.
C16_NoOverwriteKeepsDestination ==
    (call.op \in {"batch_copy", "batch_move", "copyFile", "smartMove"} /\ ~call.overwrite)
    => \A d \in DestsOf(call) : exists(watch.fs0, d) => Untouched(d)

\* the tree at dst is the tree the call found at src
SameTree(f, dst, f0, src) ==
    \A q \in FsPaths :
        IsUnder(dst, q) =>
            /\ Relocated(src, dst, q) \in FsPaths
            /\ f[q].kind = f0[Relocated(src, dst, q)].kind
            /\ f[q].data = f0[Relocated(src, dst, q)].data

\* C17: on smartMove's copy+delete path the source is deleted only after the
\* destination has been verified identical to it; when the verification fails
\* the source is left intact and smartMove returns False.
C17_SourceDeletedOnlyWhenCopied ==
    (call.op = "smartMove" /\ watch.via = "copy")
    => LET src == call.paths[1] IN
       /\ (exists(watch.fs0, src) /\ ~exists(fs, src))
            => SameTree(fs, call.dest, watch.fs0, src)
       /\ (returned # "Exception" /\ ~watch.verified)
            => (returned = "False" /\ Untouched(src))

\* C18: batch_copy leaves every source path as it found it, whatever the source
\* list, dest_dir and overwrite are, dest_dir being the directory that holds a
\* source included.
C18_CopyKeepsSources ==
    call.op = "batch_copy"
    => \A k \in 1..Len(call.paths) : Untouched(call.paths[k])

Elems(seq) == {seq[k] : k \in 1..Len(seq)}

\* C19: after batch_move has returned, every path in results['success'] exists
\* at its destination and no longer at its source, and every path in 'failed'
\* or 'skipped' (that no other item of the list moved) is at its source as the
\* call found it.
C19_MoveResultsTellTheTruth ==
    (call.op = "batch_move" /\ returned = "results")
    => /\ \A p \in Elems(results.success) :
            /\ exists(fs, join(call.dest, basename(p)))
            /\ ~exists(fs, p)
       /\ \A p \in (Elems(results.failed) \cup Elems(results.skipped))
                        \ Elems(results.success) :
            Untouched(p)

\* nothing of a failed copy is left at d: d does not exist, or is what the call
\* found there
NoPartial(d) == ~exists(fs, d) \/ fs[d] = watch.fs0[d]

\* C20: when the copy of a file has failed or was cancelled part-way, no
\* partially written destination file is left once the failure is reported:
\* by batch_copy in results['failed'], by copyFile as an exception.
C20_NoPartialDestination ==
    /\ (call.op = "batch_copy" /\ returned = "results")
        => \A p \in Elems(results.failed) \ Elems(results.success) :
              isfile(watch.fs0, p) => NoPartial(join(call.dest, basename(p)))
    /\ (call.op = "copyFile" /\ returned = "Exception")
        => NoPartial(call.dest)

\* C21: when cancel() has returned for a transfer that had not finished
\* copying, the partial destination (file or directory tree) no longer exists.
\* Read for the interleavings in which the thread had ended when the join
\* returned.
C21_CancelRemovesPartial ==
    \A t \in Tasks :
        (job.tasks[t].cancel_pc = "returned" /\ ~job.tasks[t].alive_at_return)
        => ~job.tasks[t].left_partial

\* C22: completed is True only if the whole source was transferred (for a file,
\* copied_size is the size of the source); a transfer that stopped because
\* cancelled was set is never marked completed.
C22_CompletedMeansAllCopied ==
    \A t \in Tasks :
        job.tasks[t].completed => FinishedCopying(job.tasks[t])

\* C24: when batch_chmod of either class has returned, each input path is in
\* exactly one of success / failed and len(success) + len(failed) == total,
\* also with recursive=True and a chmod that fails inside a directory.
C24_ChmodEveryPathInOneBucket ==
    (pc = "done" /\ returned = "results" /\ call.op = "batch_chmod") =>
        /\ \A p \in FsPaths :
              Count(results.success, p) + Count(results.failed, p) = Count(call.paths, p)
        /\ Len(results.success) + Len(results.failed) = results.total

\* the transfer of task was created for item
TransferOf(task, item) ==
    /\ task.src_file = item.src
    /\ task.dst_file = item.dst
    /\ task.src_isDir = item.is_dir
    /\ task.do_copy = (item.operation = "copy")

\* C23: the items of a started queue are transferred one at a time in the order
\* of add_to_queue; an item is removed from the queue, and its callback invoked
\* with the outcome, only when the completion of its own transfer arrives, and
\* the next item is not started before. Stated for the removal: the completion
\* that pops an item comes from a transfer of that item.
C23_ItemRemovedByOwnCompletion ==
    (t_last.op = "on_transfer_complete" /\ t_last.popped # NoItem)
    => TransferOf(job.tasks[t_last.task], t_last.popped)

====
